---- MODULE Spec2Model ----
(***************************************************************************)
(* BlogSync: the note-entry component (BlogNotes), the article list        *)
(* (Articles), the pure note views (groupNotesByArticle,                   *)
(* filterAndSortNotes), the exports (ExportNotes, BlogNotes), the blog     *)
(* list (Blogs), the recommendations (ArticleRecommendations) and the      *)
(* profile editor (UserProfile), modelled from the TypeScript sources.     *)
(*                                                                         *)
(* Strings are sequences of one-character strings; a nullable string is    *)
(* such a sequence or NullStr.  Record ids are positive integers and a     *)
(* null reference is NoId.                                                 *)
(***************************************************************************)
EXTENDS Integers, Sequences, FiniteSets, Bags, TLC

(* ------------------------------ bounds --------------------------------- *)
\* longest note list handed to filterAndSortNotes
MaxViewLen == 3
\* longest note list handed to groupNotesByArticle
MaxGroupLen == 3
\* Save Note events in one run
MaxSubmits == 2
\* most notes in the store at an export
MaxExportLen == 2
\* most articles the recommendations query returns
MaxRankLen == 6
\* most blogs in the blog list
MaxBlogs == 3
\* single Visit clicks in one run
MaxVisits == 1
\* 'Mark as read' clicks on the recommendations in one run
MaxReads == 2

(* ------------------------------ strings -------------------------------- *)
\* null of a `string | null` field (Note.article_title, Note.article_url)
NullStr == <<"null">>
\* null of an id field (Note.article_id, currentArticleId)
NoId == 0

Apple == <<"A", "p", "p", "l", "e">>
Zed == <<"Z", "e", "d">>
Post == <<"P", "o", "s", "t">>
Ant == <<"a", "n", "t">>

\* JavaScript truthiness of a `string | null` value
Truthy(s) == s # NullStr /\ s # <<>>

\* `s || ''`
OrEmpty(s) == IF Truthy(s) THEN s ELSE <<>>

\* `s || null`
OrNull(s) == IF Truthy(s) THEN s ELSE NullStr

LowerChar(c) ==
  CASE c = "A" -> "a"
    [] c = "B" -> "b"
    [] c = "P" -> "p"
    [] c = "Z" -> "z"
    [] OTHER -> c

IsUpperChar(c) == LowerChar(c) # c

\* String.prototype.toLowerCase
ToLowerCase(s) == [i \in 1..Len(s) |-> LowerChar(s[i])]

\* String.prototype.includes
Includes(s, q) ==
  \E i \in 0..(Len(s) - Len(q)) : SubSeq(s, i + 1, i + Len(q)) = q

IsSpace(c) == c = " "

\* String.prototype.trim
RECURSIVE TrimStart(_)
TrimStart(s) ==
  IF s # <<>> /\ IsSpace(Head(s)) THEN TrimStart(Tail(s)) ELSE s

RECURSIVE TrimEnd(_)
TrimEnd(s) ==
  IF s # <<>> /\ IsSpace(s[Len(s)]) THEN TrimEnd(SubSeq(s, 1, Len(s) - 1)) ELSE s

Trim(s) == TrimEnd(TrimStart(s))

\* collation weight of a letter, case ignored (space sorts before letters)
CollationOrder ==
  <<" ", "a", "b", "d", "e", "l", "n", "o", "p", "s", "t", "u", "x", "z">>

PrimaryWeight(c) ==
  CHOOSE i \in 1..Len(CollationOrder) : CollationOrder[i] = LowerChar(c)

Sign(n) == IF n < 0 THEN -1 ELSE IF n > 0 THEN 1 ELSE 0

\* three-way lexicographic comparison of two weight sequences
LexCompare(wa, wb) ==
  LET n == IF Len(wa) < Len(wb) THEN Len(wa) ELSE Len(wb)
      diff == {i \in 1..n : wa[i] # wb[i]}
  IN  IF diff = {}
        THEN Sign(Len(wa) - Len(wb))
        ELSE LET i == CHOOSE k \in diff : \A m \in diff : k <= m
             IN  IF wa[i] < wb[i] THEN -1 ELSE 1

\* String.prototype.localeCompare: letters first, case only as a tie-break
\* (lower case before upper case)
localeCompare(a, b) ==
  LET p == LexCompare([i \in 1..Len(a) |-> PrimaryWeight(a[i])],
                      [i \in 1..Len(b) |-> PrimaryWeight(b[i])])
  IN  IF p # 0
        THEN p
        ELSE LexCompare([i \in 1..Len(a) |-> IF IsUpperChar(a[i]) THEN 1 ELSE 0],
                        [i \in 1..Len(b) |-> IF IsUpperChar(b[i]) THEN 1 ELSE 0])

(* ------------------------- groupNotesByArticle -------------------------- *)
\* `note.article_id || 'uncategorized'`, as an object property key
GroupKey(note) ==
  IF note.article_id # NoId THEN ToString(note.article_id) ELSE "uncategorized"

NoGroups == [keys |-> <<>>, at |-> <<>>]

\* the reduce callback without its `if (!groups[key])`: the group is made anew
\* for every note
GroupStepOverwrite(groups, note) ==
  LET key == GroupKey(note)
      present == \E i \in 1..Len(groups.keys) : groups.keys[i] = key
      fresh == [article_title |-> note.article_title,
                article_url |-> note.article_url,
                notes |-> <<note>>]
      keys1 == IF present THEN groups.keys ELSE Append(groups.keys, key)
      k == CHOOSE i \in 1..Len(keys1) : keys1[i] = key
  IN  [keys |-> keys1,
       at |-> IF present THEN [groups.at EXCEPT ![k] = fresh]
              ELSE Append(groups.at, fresh)]

\* the reduce callback with unshift in the place of push
GroupStepUnshift(groups, note) ==
  LET key == GroupKey(note)
      present == \E i \in 1..Len(groups.keys) : groups.keys[i] = key
      keys1 == IF present THEN groups.keys ELSE Append(groups.keys, key)
      at1 == IF present
               THEN groups.at
               ELSE Append(groups.at,
                           [article_title |-> note.article_title,
                            article_url |-> note.article_url,
                            notes |-> <<>>])
      k == CHOOSE i \in 1..Len(keys1) : keys1[i] = key
  IN  [keys |-> keys1,
       at |-> [at1 EXCEPT ![k].notes = <<note>> \o @]]

\* one step of the reduce callback
GroupStep(groups, note) ==
  LET key == GroupKey(note)
      present == \E i \in 1..Len(groups.keys) : groups.keys[i] = key
      keys1 == IF present THEN groups.keys ELSE Append(groups.keys, key)
      at1 == IF present
               THEN groups.at
               ELSE Append(groups.at,
                           [article_title |-> note.article_title,
                            article_url |-> note.article_url,
                            notes |-> <<>>])
      k == CHOOSE i \in 1..Len(keys1) : keys1[i] = key
  IN  [keys |-> keys1,
       at |-> [at1 EXCEPT ![k].notes = Append(@, note)]]

RECURSIVE GroupReduce(_, _)
GroupReduce(groups, ns) ==
  IF ns = <<>> THEN groups ELSE GroupReduce(GroupStep(groups, Head(ns)), Tail(ns))

groupNotesByArticle(ns) == GroupReduce(NoGroups, ns)

(* -------------------------- filterAndSortNotes -------------------------- *)
FilterOptions == {"all", "with-article", "without-article"}
SortOptions == {"newest", "oldest", "article"}

\* the filter predicate of the chosen filter option
PassesFilter(filterBy, note) ==
  CASE filterBy = "with-article" -> Truthy(note.article_title)
    [] filterBy = "without-article" -> ~Truthy(note.article_title)
    [] OTHER -> TRUE

\* the search predicate without `searchQuery.toLowerCase()`
PassesSearchCaseSensitive(searchQuery, note) ==
  IF searchQuery = <<>> THEN TRUE
  ELSE LET query == searchQuery
       IN  \/ Includes(ToLowerCase(note.excerpt), query)
           \/ Includes(ToLowerCase(note.personal_note), query)
           \/ /\ Truthy(note.article_title)
              /\ Includes(ToLowerCase(note.article_title), query)

\* the search predicate (`if (searchQuery)` guards it)
PassesSearch(searchQuery, note) ==
  IF searchQuery = <<>> THEN TRUE
  ELSE LET query == ToLowerCase(searchQuery)
       IN  \/ Includes(ToLowerCase(note.excerpt), query)
           \/ Includes(ToLowerCase(note.personal_note), query)
           \/ /\ Truthy(note.article_title)
              /\ Includes(ToLowerCase(note.article_title), query)

\* the comparator with the operands of the 'article' branch exchanged
CompareNotesExchanged(sortBy, a, b) ==
  CASE sortBy = "newest" -> b.created_at - a.created_at
    [] sortBy = "oldest" -> a.created_at - b.created_at
    [] sortBy = "article" ->
         localeCompare(OrEmpty(b.article_title), OrEmpty(a.article_title))
    [] OTHER -> 0

\* the comparator handed to Array.prototype.sort
CompareNotes(sortBy, a, b) ==
  CASE sortBy = "newest" -> b.created_at - a.created_at
    [] sortBy = "oldest" -> a.created_at - b.created_at
    [] sortBy = "article" ->
         localeCompare(OrEmpty(a.article_title), OrEmpty(b.article_title))
    [] OTHER -> 0

\* Array.prototype.sort is stable: an element goes after every element that
\* does not compare greater than it
\* a sort that puts a note before the notes it compares equal to
InsertSortedBeforeEquals(sortBy, sorted, x) ==
  LET after == {i \in 1..Len(sorted) : CompareNotes(sortBy, sorted[i], x) >= 0}
      pos == IF after = {} THEN Len(sorted) + 1
             ELSE CHOOSE k \in after : \A m \in after : k <= m
  IN  SubSeq(sorted, 1, pos - 1) \o <<x>> \o SubSeq(sorted, pos, Len(sorted))

InsertSorted(sortBy, sorted, x) ==
  LET after == {i \in 1..Len(sorted) : CompareNotes(sortBy, sorted[i], x) > 0}
      pos == IF after = {} THEN Len(sorted) + 1
             ELSE CHOOSE k \in after : \A m \in after : k <= m
  IN  SubSeq(sorted, 1, pos - 1) \o <<x>> \o SubSeq(sorted, pos, Len(sorted))

RECURSIVE SortInto(_, _, _)
SortInto(sortBy, sorted, rest) ==
  IF rest = <<>> THEN sorted
  ELSE SortInto(sortBy, InsertSorted(sortBy, sorted, Head(rest)), Tail(rest))

SortNotes(sortBy, ns) == SortInto(sortBy, <<>>, ns)

\* An array is an object: `ref` names the object, `items` is its content.
\* `let filteredNotes = notes`: the same object under a second name
SameArray(arr) == arr

\* `[...notes]`: a new array with the same items
SpreadCopy(arr) == [ref |-> "copy", items |-> arr.items]

\* Array.prototype.filter: a new array
FilterArray(kept) == [ref |-> "filtered", items |-> kept]

\* one call of filterAndSortNotes: `out` is the array returned, `input` the
\* content of the argument array after the call (sort works in place on the
\* array that filteredNotes names)
filterAndSortNotesCall(ns, filterBy, searchQuery, sortBy) ==
  LET KeepF(n) == PassesFilter(filterBy, n)
      KeepS(n) == PassesSearch(searchQuery, n)
      notesArg == [ref |-> "input", items |-> ns]
      copied == SpreadCopy(notesArg)
      filtered == IF filterBy \in {"with-article", "without-article"}
                    THEN FilterArray(SelectSeq(copied.items, KeepF)) ELSE copied
      searched == IF searchQuery # <<>> THEN FilterArray(SelectSeq(filtered.items, KeepS)) ELSE filtered
      sorted == SortNotes(sortBy, searched.items)
  IN  [out |-> sorted,
       input |-> IF searched.ref = "input" THEN sorted ELSE ns]

filterAndSortNotes(ns, filterBy, searchQuery, sortBy) ==
  filterAndSortNotesCall(ns, filterBy, searchQuery, sortBy).out

(* ------------------------------- state ---------------------------------- *)
VARIABLES
  withCache,        \* which BlogNotes revision is mounted: with currentArticleId or without
  user,             \* the Identity Provider reports a current user
  view,             \* Blogs: "blogs" | "notes" (BlogNotes open) | "articles" (Articles open)
  articleTitle,     \* BlogNotes state
  articleUrl,
  currentArticleId,
  loading,
  error,
  notes,
  fetching,         \* the mount effect's fetchNotes is in flight
  subs,             \* handleSubmit calls: in flight, or the mounted session's last finished one
  nsub,             \* handleSubmit calls started
  resetSince,       \* the memo was reset since the session's last Save Note
  streakArts,       \* articles inserted by the Save Notes since the last edit, open or close
  streakRefs,       \* article references of the notes they saved with a title and a URL
  articlesDb,       \* the store: articles rows
  notesDb,          \* the store: notes rows, in insertion order
  articles,         \* Articles state: the fetched list
  artFetching,      \* Articles state: loading (fetchArticles is in flight)
  artError,         \* Articles state: error is set
  hist,             \* which handleSubmit call inserted which row
  pureIn,           \* arguments of the pure view under test
  pureOut           \* its result

formVars == <<articleTitle, articleUrl, currentArticleId, loading, error, notes,
              fetching, resetSince>>
streakVars == <<streakArts, streakRefs>>
storeVars == <<articlesDb, notesDb>>
listVars == <<articles, artFetching, artError>>
pureVars == <<pureIn, pureOut>>
vars == <<withCache, user, view, formVars, streakVars, subs, nsub, storeVars,
          listVars, hist, pureVars>>

NoError == "null"
Idle == [kind |-> "idle"]

\* what the user can type into the article title and URL inputs
TitleInputs == {<<>>, Post, Ant}
UrlInputs == {<<>>, <<"u">>}
\* what the user can type into a required textarea (the browser refuses '')
TextInputs == {<<"x">>}

Reverse(s) == [i \in 1..Len(s) |-> s[Len(s) + 1 - i]]

SessionInit ==
  /\ user = TRUE
  /\ view = "blogs"
  /\ articleTitle = <<>>
  /\ articleUrl = <<>>
  /\ currentArticleId = NoId
  /\ loading = FALSE
  /\ error = NoError
  /\ notes = <<>>
  /\ fetching = FALSE
  /\ subs = {}
  /\ nsub = 0
  /\ resetSince = FALSE
  /\ streakArts = {}
  /\ streakRefs = {}
  /\ articlesDb = {}
  /\ notesDb = <<>>
  /\ articles = <<>>
  /\ artFetching = FALSE
  /\ artError = FALSE
  /\ hist = {}

Init ==
  /\ withCache \in BOOLEAN
  /\ SessionInit
  /\ pureIn = Idle
  /\ pureOut = Idle

(* ------------------------------ BlogNotes -------------------------------- *)
\* the component that made the call is still mounted
Live(s) == ~s.orphan

InFlight(s) == s.pc # "done"

\* the calls in flight when the title or URL is edited belong to the old metadata
Outdated(ss) == {[s EXCEPT !.stale = TRUE] : s \in ss}

\* useState initial values, and the mount effect that starts fetchNotes
OpenNotes ==
  /\ view = "blogs"
  /\ view' = "notes"
  /\ articleTitle' = <<>>
  /\ articleUrl' = <<>>
  /\ currentArticleId' = NoId
  /\ loading' = FALSE
  /\ error' = NoError
  /\ notes' = <<>>
  /\ fetching' = TRUE
  /\ resetSince' = FALSE
  /\ streakArts' = {}
  /\ streakRefs' = {}
  /\ UNCHANGED <<withCache, user, subs, nsub, storeVars, listVars, hist, pureVars>>

\* fetchNotes: rows of the blog, newest first
FetchNotesDone ==
  /\ view = "notes"
  /\ fetching
  /\ fetching' = FALSE
  /\ \/ notes' = Reverse(notesDb)
     \/ notes' = notes
  /\ UNCHANGED <<withCache, user, view, articleTitle, articleUrl,
                 currentArticleId, loading, error, resetSince, streakVars, subs, nsub,
                 storeVars, listVars, hist, pureVars>>

\* handleArticleInfoChange
ResetMemo == IF withCache THEN NoId ELSE currentArticleId

\* onChange of the article title input
EditTitle(t) ==
  /\ view = "notes"
  /\ t # articleTitle
  /\ articleTitle' = t
  /\ currentArticleId' = ResetMemo
  /\ resetSince' = TRUE
  /\ streakArts' = {}
  /\ streakRefs' = {}
  /\ subs' = Outdated(subs)
  /\ UNCHANGED <<withCache, user, view, articleUrl, loading, error, notes,
                 fetching, nsub, storeVars, listVars, hist, pureVars>>

\* onChange of the article URL input
EditUrl(u) ==
  /\ view = "notes"
  /\ u # articleUrl
  /\ articleUrl' = u
  /\ currentArticleId' = ResetMemo
  /\ resetSince' = TRUE
  /\ streakArts' = {}
  /\ streakRefs' = {}
  /\ subs' = Outdated(subs)
  /\ UNCHANGED <<withCache, user, view, articleTitle, loading, error, notes,
                 fetching, nsub, storeVars, listVars, hist, pureVars>>

\* handleClose, and onClose unmounting the component: calls still in flight run
\* on, their state updates are dropped
handleClose ==
  /\ view = "notes"
  /\ view' = "blogs"
  /\ articleTitle' = <<>>
  /\ articleUrl' = <<>>
  /\ currentArticleId' = NoId
  /\ loading' = FALSE
  /\ error' = NoError
  /\ notes' = <<>>
  /\ fetching' = FALSE
  /\ resetSince' = FALSE
  /\ streakArts' = {}
  /\ streakRefs' = {}
  /\ subs' = {[s EXCEPT !.orphan = TRUE, !.stale = TRUE] : s \in {x \in subs : InFlight(x)}}
  /\ UNCHANGED <<withCache, user, nsub, storeVars, listVars, hist, pureVars>>

\* a Save Note button without `disabled={loading}`
AlwaysEnabled == TRUE

\* the Save Note button is disabled while loading
CanSubmit == ~loading

NewSubmit(e, p) ==
  [sid |-> nsub + 1, orphan |-> FALSE, stale |-> FALSE, pc |-> "getUser",
   title |-> articleTitle, url |-> articleUrl, excerpt |-> e, personal_note |-> p,
   cached |-> currentArticleId, articleId |-> NoId, notesSnap |-> notes,
   afterReset |-> resetSince, outcome |-> "none"]

\* handleSubmit up to its first await (supabase.auth.getUser)
SubmitStart(e, p) ==
  /\ view = "notes"
  /\ CanSubmit
  /\ nsub < MaxSubmits
  /\ loading' = TRUE
  /\ error' = NoError
  /\ nsub' = nsub + 1
  /\ subs' = {s \in subs : InFlight(s)} \cup {NewSubmit(e, p)}
  /\ resetSince' = FALSE
  /\ UNCHANGED <<withCache, user, view, articleTitle, articleUrl,
                 currentArticleId, notes, fetching, streakVars, storeVars, listVars,
                 hist, pureVars>>

\* `let articleId = currentArticleId` / `let articleId = null`
InitialArticleId(s) == IF withCache THEN s.cached ELSE NoId

\* the condition under which handleSubmit inserts an Article
NeedsArticle(s) ==
  IF withCache
    THEN s.cached = NoId /\ Truthy(s.url) /\ Truthy(s.title)
    ELSE Truthy(Trim(s.title)) /\ Truthy(Trim(s.url))

\* the catch and finally blocks, and the end of the try block
Settled(s, outcome) ==
  IF Live(s)
    THEN (subs \ {s}) \cup {[s EXCEPT !.pc = "done", !.outcome = outcome]}
    ELSE subs \ {s}

\* getUser answered: no user throws, otherwise the next store call is issued
GetUserDone(s) ==
  /\ s.pc = "getUser"
  /\ IF ~user
       THEN /\ subs' = Settled(s, "noUser")
            /\ loading' = IF Live(s) THEN FALSE ELSE loading
            /\ error' = IF Live(s) THEN "User not found" ELSE error
       ELSE /\ subs' = (subs \ {s}) \cup
                         {[s EXCEPT !.pc = IF NeedsArticle(s) THEN "article" ELSE "note",
                                    !.articleId = InitialArticleId(s)]}
            /\ UNCHANGED <<loading, error>>
  /\ UNCHANGED <<withCache, user, view, articleTitle, articleUrl,
                 currentArticleId, notes, fetching, resetSince, streakVars, nsub,
                 storeVars, listVars, hist, pureVars>>

NextArticleId == Cardinality({h \in hist : h.kind = "article"}) + 1

ArticleRow(s, id) ==
  [id |-> id,
   title |-> IF withCache THEN s.title ELSE Trim(s.title),
   url |-> IF withCache THEN s.url ELSE Trim(s.url),
   is_read |-> FALSE,
   date_read |-> "null"]

\* setCurrentArticleId(articleId), dropped when the component is gone
MemoAfterInsert(s, id) == IF withCache /\ Live(s) THEN id ELSE currentArticleId

\* the articles insert succeeded: setCurrentArticleId, then the notes insert is issued
ArticleInsertOk(s) ==
  /\ s.pc = "article"
  /\ LET id == NextArticleId
     IN  /\ articlesDb' = articlesDb \cup {ArticleRow(s, id)}
         /\ hist' = hist \cup {[kind |-> "article", id |-> id, sid |-> s.sid,
                                article_id |-> id, keyed |-> TRUE]}
         /\ subs' = (subs \ {s}) \cup {[s EXCEPT !.pc = "note", !.articleId = id]}
         /\ currentArticleId' = MemoAfterInsert(s, id)
         /\ streakArts' = IF s.stale THEN streakArts ELSE streakArts \cup {id}
  /\ UNCHANGED <<withCache, user, view, articleTitle, articleUrl, loading,
                 error, notes, fetching, resetSince, streakRefs, nsub, notesDb,
                 listVars, pureVars>>

\* the message the catch block sets after a rejected articles insert
ArticleErrorMessage == IF withCache THEN "Failed to create article" ELSE "Failed to save note"

\* handleSubmit without its `if (articleError) throw`: the notes insert follows
AfterArticleErrorIgnored(s) ==
  /\ subs' = (subs \ {s}) \cup {[s EXCEPT !.pc = "note"]}
  /\ UNCHANGED <<loading, error, storeVars, hist, notes>>

\* what handleSubmit does when the articles insert returns an error
AfterArticleError(s) ==
  /\ subs' = Settled(s, "articleRejected")
  /\ loading' = IF Live(s) THEN FALSE ELSE loading
  /\ error' = IF Live(s) THEN ArticleErrorMessage ELSE error
  /\ UNCHANGED <<storeVars, hist, notes>>

\* the articles insert was rejected by the store
ArticleInsertRejected(s) ==
  /\ s.pc = "article"
  /\ AfterArticleError(s)
  /\ UNCHANGED <<withCache, user, view, articleTitle, articleUrl,
                 currentArticleId, fetching, resetSince, streakVars, nsub, listVars,
                 pureVars>>

\* the row handleSubmit inserts into notes (the store sets id and created_at)
NoteRow(s, id) ==
  [id |-> id,
   article_id |-> s.articleId,
   article_title |-> IF withCache THEN OrNull(s.title) ELSE NullStr,
   article_url |-> IF withCache THEN OrNull(s.url) ELSE NullStr,
   excerpt |-> IF withCache THEN s.excerpt ELSE Trim(s.excerpt),
   personal_note |-> IF withCache THEN s.personal_note ELSE Trim(s.personal_note),
   created_at |-> id]

\* the notes insert succeeded
NoteInsertOk(s) ==
  /\ s.pc = "note"
  /\ LET row == NoteRow(s, Len(notesDb) + 1)
         keyed == Truthy(s.title) /\ Truthy(s.url)
     IN  /\ notesDb' = Append(notesDb, row)
         /\ hist' = hist \cup {[kind |-> "note", id |-> row.id, sid |-> s.sid,
                                article_id |-> row.article_id, keyed |-> keyed]}
         /\ streakRefs' = IF keyed /\ ~s.stale
                            THEN streakRefs \cup {row.article_id}
                            ELSE streakRefs
         /\ IF withCache
              THEN /\ notes' = IF Live(s) THEN <<row>> \o s.notesSnap ELSE notes
                   /\ loading' = IF Live(s) THEN FALSE ELSE loading
                   /\ subs' = Settled(s, "saved")
              ELSE /\ subs' = (subs \ {s}) \cup {[s EXCEPT !.pc = "refetch"]}
                   /\ UNCHANGED <<notes, loading>>
  /\ UNCHANGED <<withCache, user, view, articleTitle, articleUrl,
                 currentArticleId, error, fetching, resetSince, streakArts, nsub,
                 articlesDb, listVars, pureVars>>

\* the rejected notes insert without the finally block: loading stays set
NoteInsertRejectedNoFinally(s) ==
  /\ s.pc = "note"
  /\ subs' = Settled(s, "noteRejected")
  /\ error' = IF Live(s) THEN "Failed to create note" ELSE error
  /\ UNCHANGED <<withCache, user, view, articleTitle, articleUrl, loading,
                 currentArticleId, notes, fetching, resetSince, streakVars, nsub,
                 storeVars, listVars, hist, pureVars>>

\* the notes insert was rejected by the store
NoteInsertRejected(s) ==
  /\ s.pc = "note"
  /\ subs' = Settled(s, "noteRejected")
  /\ loading' = IF Live(s) THEN FALSE ELSE loading
  /\ error' = IF Live(s) THEN "Failed to create note" ELSE error
  /\ UNCHANGED <<withCache, user, view, articleTitle, articleUrl,
                 currentArticleId, notes, fetching, resetSince, streakVars, nsub,
                 storeVars, listVars, hist, pureVars>>

\* the revision without the memo ends with `await fetchNotes()`
RefetchDone(s) ==
  /\ s.pc = "refetch"
  /\ \/ notes' = IF Live(s) THEN Reverse(notesDb) ELSE notes
     \/ notes' = notes
  /\ loading' = IF Live(s) THEN FALSE ELSE loading
  /\ subs' = Settled(s, "saved")
  /\ UNCHANGED <<withCache, user, view, articleTitle, articleUrl,
                 currentArticleId, error, fetching, resetSince, streakVars, nsub,
                 storeVars, listVars, hist, pureVars>>

(* ------------------------------- Articles -------------------------------- *)
RECURSIVE NewestFirst(_)
NewestFirst(rows) ==
  IF rows = {} THEN <<>>
  ELSE LET r == CHOOSE x \in rows : \A y \in rows : y.id <= x.id
       IN  <<r>> \o NewestFirst(rows \ {r})

OpenArticles ==
  /\ view = "blogs"
  /\ view' = "articles"
  /\ articles' = <<>>
  /\ artFetching' = TRUE
  /\ artError' = FALSE
  /\ UNCHANGED <<withCache, user, formVars, streakVars, subs, nsub, storeVars, hist,
                 pureVars>>

CloseArticles ==
  /\ view = "articles"
  /\ view' = "blogs"
  /\ articles' = <<>>
  /\ artFetching' = FALSE
  /\ artError' = FALSE
  /\ UNCHANGED <<withCache, user, formVars, streakVars, subs, nsub, storeVars, hist,
                 pureVars>>

fetchArticles ==
  /\ view = "articles"
  /\ artFetching
  /\ artFetching' = FALSE
  /\ \/ articles' = NewestFirst(articlesDb) /\ UNCHANGED artError
     \/ artError' = TRUE /\ UNCHANGED articles
  /\ UNCHANGED <<withCache, user, view, formVars, streakVars, subs, nsub, storeVars,
                 hist, pureVars>>

\* the list and its buttons are rendered only when neither loading nor error is set
ListShown == view = "articles" /\ ~artFetching /\ ~artError

ToggledRow(r, currentStatus) ==
  [r EXCEPT !.is_read = ~currentStatus,
            !.date_read = IF ~currentStatus THEN "now" ELSE "null"]

toggleReadStatus(i) ==
  /\ ListShown
  /\ LET articleId == articles[i].id
         currentStatus == articles[i].is_read
     IN  \/ /\ articlesDb' = {IF r.id = articleId THEN ToggledRow(r, currentStatus) ELSE r
                                : r \in articlesDb}
            /\ articles' = [k \in 1..Len(articles) |->
                              IF articles[k].id = articleId
                                THEN ToggledRow(articles[k], currentStatus)
                                ELSE articles[k]]
            /\ UNCHANGED artError
         \/ /\ artError' = TRUE
            /\ UNCHANGED <<articlesDb, articles>>
  /\ UNCHANGED <<withCache, user, view, formVars, streakVars, subs, nsub, notesDb,
                 artFetching, hist, pureVars>>

\* what the store does to the notes that reference a deleted article: nothing
NotesAfterArticleDelete(rows, articleId) == rows

deleteArticle(i) ==
  /\ ListShown
  /\ LET articleId == articles[i].id
         Other(r) == r.id # articleId
     IN  \/ /\ articlesDb' = {r \in articlesDb : r.id # articleId}
            /\ notesDb' = NotesAfterArticleDelete(notesDb, articleId)
            /\ articles' = SelectSeq(articles, Other)
            /\ UNCHANGED artError
         \/ /\ artError' = TRUE
            /\ UNCHANGED <<articlesDb, notesDb, articles>>
  /\ UNCHANGED <<withCache, user, view, formVars, streakVars, subs, nsub,
                 artFetching, hist, pureVars>>

(* ---------------------------- Identity Provider --------------------------- *)
\* the user's session ends (sign-out in another tab, expiry)
SessionEnds ==
  /\ user
  /\ user' = FALSE
  /\ UNCHANGED <<withCache, view, formVars, streakVars, subs, nsub, storeVars,
                 listVars, hist, pureVars>>

Next ==
  \/ OpenNotes
  \/ FetchNotesDone
  \/ \E t \in TitleInputs : EditTitle(t)
  \/ \E u \in UrlInputs : EditUrl(u)
  \/ handleClose
  \/ \E e \in TextInputs, p \in TextInputs : SubmitStart(e, p)
  \/ \E s \in subs : GetUserDone(s)
  \/ \E s \in subs : ArticleInsertOk(s)
  \/ \E s \in subs : ArticleInsertRejected(s)
  \/ \E s \in subs : NoteInsertOk(s)
  \/ \E s \in subs : NoteInsertRejected(s)
  \/ \E s \in subs : RefetchDone(s)
  \/ OpenArticles
  \/ CloseArticles
  \/ fetchArticles
  \/ \E i \in 1..Len(articles) : toggleReadStatus(i)
  \/ \E i \in 1..Len(articles) : deleteArticle(i)
  \/ SessionEnds

Spec == Init /\ [][Next]_vars

(* ----------------------- note entry with blank texts ---------------------- *)
\* what the `required` attribute of the two textareas lets through: every
\* value but '', a text of blanks included
EntryTexts == {<<"x">>, <<" ">>}

\* the note-entry modal alone, with the texts the form lets through
NextEntry ==
  \/ OpenNotes
  \/ FetchNotesDone
  \/ \E t \in TitleInputs : EditTitle(t)
  \/ \E u \in UrlInputs : EditUrl(u)
  \/ handleClose
  \/ \E e \in EntryTexts, p \in EntryTexts : SubmitStart(e, p)
  \/ \E s \in subs : GetUserDone(s)
  \/ \E s \in subs : ArticleInsertOk(s)
  \/ \E s \in subs : ArticleInsertRejected(s)
  \/ \E s \in subs : NoteInsertOk(s)
  \/ \E s \in subs : NoteInsertRejected(s)
  \/ \E s \in subs : RefetchDone(s)

SpecEntry == Init /\ [][NextEntry]_vars

(* ------------------------- the note-entry session ------------------------- *)
\* the submissions of the open modal that have not settled
LiveInFlight == {s \in subs : Live(s) /\ InFlight(s)}

\* C1: within one note-entry session (title and URL both non-empty and not
\* edited between saves) the successive handleSubmit calls insert exactly one
\* Article in total, and every note saved in the session carries that reference.
C1_OneArticlePerSession ==
  /\ Cardinality(streakArts) <= 1
  /\ streakRefs \subseteq streakArts

\* the step in which the store rejects the articles insert of submission s
ArticleRejectedFor(s) ==
  /\ s.pc = "article"
  /\ articlesDb' = articlesDb
  /\ ~\E t \in subs' : t.sid = s.sid /\ t.pc = "article"

\* C2: if the Article insert inside handleSubmit is rejected by the store, no
\* Note insert is attempted in that submission: the notes collection is left
\* unchanged and an error message is set.
C2_RejectedArticleNoNote ==
  [][\A s \in subs :
       ArticleRejectedFor(s) =>
         /\ ~\E t \in subs' : t.sid = s.sid /\ t.pc \in {"note", "refetch"}
         /\ ~\E h \in hist' : h.kind = "note" /\ h.sid = s.sid
         /\ notesDb' = notesDb
         /\ notes' = notes
         /\ Live(s) => error' # NoError /\ ~loading']_vars

C2_Witness ==
  /\ notesDb # <<>>
  /\ \E s \in subs : /\ s.outcome = "articleRejected"
                     /\ ~\E h \in hist : h.kind = "note" /\ h.sid = s.sid
                     /\ error # NoError

\* C3: after any sequence of note submissions, article deletions and
\* read-status changes, no Note in the store has an article reference that
\* names an Article absent from the store.
C3_NoDanglingReference ==
  \A i \in 1..Len(notesDb) :
    notesDb[i].article_id # NoId =>
      \E a \in articlesDb : a.id = notesDb[i].article_id

\* C4: for any interleaving of two Save Note events in the same session with
\* the same non-empty title and URL at most one Article is inserted: a second
\* handleSubmit cannot start while the first is still in flight.
C4_SavesSerialized ==
  withCache =>
    /\ Cardinality(LiveInFlight) <= 1
    /\ (loading <=> LiveInFlight # {})
    /\ Cardinality(streakArts) <= 1

C4_Witness ==
  /\ withCache
  /\ nsub = 2
  /\ Cardinality(streakArts) = 1
  /\ Cardinality({h \in hist : h.kind = "note" /\ h.article_id \in streakArts}) = 2

\* C5: editing the title or the URL, or closing the modal, resets the memo of
\* the article reference to null; once set the memo changes in no other way;
\* and the next submission with both fields non-empty after a reset inserts a
\* new Article (it starts without a memo).
C5_MemoChanges ==
  withCache =>
    /\ (articleTitle' # articleTitle \/ articleUrl' # articleUrl \/
          (view = "notes" /\ view' # "notes")) => currentArticleId' = NoId
    /\ currentArticleId # NoId => currentArticleId' \in {currentArticleId, NoId}
    /\ \A s \in subs' \ subs :
         (s.pc = "getUser" /\ s.afterReset /\ Truthy(s.title) /\ Truthy(s.url))
           => s.cached = NoId

C5_ResetForcesNewArticle == [][C5_MemoChanges]_vars

\* a step in which a handler sends its first insert, update or delete to the
\* store: handleSubmit sends the articles or notes insert right after getUser
\* has answered; toggleReadStatus and deleteArticle send their update or
\* delete when the button is pressed
IssuesWrite ==
  \/ \E s \in subs : /\ s.pc = "getUser"
                     /\ \E t \in subs' : t.sid = s.sid /\ t.pc \in {"article", "note"}
  \/ /\ ListShown
     /\ view' = view
     /\ articles' # articles \/ (artError' /\ ~artError)

\* C21: no write to the store is issued by any handler while the Identity
\* Provider reports no current user; the operation fails instead.
C21_NoWriteWithoutUser == [][IssuesWrite => user]_vars

\* C22: every Note inserted into the store by handleSubmit has a non-empty
\* excerpt and a non-empty personal note as stored; a submission lacking
\* either is rejected without inserting a Note or an Article.
C22_StoredTextsNonEmpty ==
  \A i \in 1..Len(notesDb) :
    /\ notesDb[i].excerpt # <<>>
    /\ notesDb[i].personal_note # <<>>

\* the memo names the Article made from the title and URL now in the form
MemoMatchesForm ==
  (view = "notes" /\ currentArticleId # NoId) =>
    \E a \in articlesDb : /\ a.id = currentArticleId
                          /\ a.title = articleTitle
                          /\ a.url = articleUrl

\* a stored note's Article has the title and URL of the note's snapshot
SnapshotsMatchArticles ==
  \A i \in 1..Len(notesDb) : \A a \in articlesDb :
    a.id = notesDb[i].article_id =>
      /\ notesDb[i].article_title = a.title
      /\ notesDb[i].article_url = a.url

\* C23: whenever the cached article reference (currentArticleId) is non-null
\* it names the Article created from the title and URL currently in the form,
\* also when the title or URL is edited while a submission is in flight; hence
\* no note is saved with an article reference whose Article has a different
\* title or URL than the note's own snapshot.
C23_MemoNamesCurrentArticle ==
  withCache => (MemoMatchesForm /\ SnapshotsMatchArticles)

(* --------------------- the pure views, on bounded inputs ------------------ *)
BoundedSeq(S, n) == UNION {[1..k -> S] : k \in 0..n}

Range(s) == {s[i] : i \in DOMAIN s}

\* the notes of a sequence, as a multiset
SeqToBag(s) == [x \in Range(s) |-> Cardinality({i \in DOMAIN s : s[i] = x})]

RECURSIVE Flatten(_)
Flatten(ss) == IF ss = <<>> THEN <<>> ELSE Head(ss) \o Flatten(Tail(ss))

\* notes as the two revisions of handleSubmit store them: with or without an
\* article reference, with or without a title snapshot
GroupShapes == [article_id : {NoId, 1, 2}, article_title : {NullStr, Post, Ant}]

\* a note list of the given shapes, each note with its own id
GroupInput(shapes) ==
  [i \in 1..Len(shapes) |->
     [id |-> i,
      article_id |-> shapes[i].article_id,
      article_title |-> shapes[i].article_title,
      article_url |-> NullStr,
      excerpt |-> <<"x">>,
      personal_note |-> <<"x">>,
      created_at |-> i]]

ViewTexts(title) ==
  CASE title = NullStr -> <<<<"Z", "a">>, <<"b">>>>
    [] title = <<>> -> <<<<"b">>, <<"p">>>>
    [] title = Ant -> <<<<"x">>, <<"z", "A">>>>
    [] OTHER -> <<<<"x">>, <<"x">>>>

ViewTitles == <<NullStr, <<>>, Apple, Zed, Ant>>

ViewNotes ==
  {[id |-> 2 * (k - 1) + c,
    article_id |-> IF Truthy(ViewTitles[k]) THEN k ELSE NoId,
    article_title |-> ViewTitles[k],
    article_url |-> NullStr,
    excerpt |-> ViewTexts(ViewTitles[k])[1],
    personal_note |-> ViewTexts(ViewTitles[k])[2],
    created_at |-> c] : k \in 1..Len(ViewTitles), c \in {1, 2}}

ViewQueries == {<<>>, <<"P">>, <<"z", "a">>}

\* note lists without a repeated note
ViewInputs ==
  {ns \in BoundedSeq(ViewNotes, MaxViewLen) :
     \A i, j \in 1..Len(ns) : i # j => ns[i].id # ns[j].id}

InitGroup ==
  /\ withCache = TRUE
  /\ SessionInit
  /\ pureIn \in {[kind |-> "group", notes |-> GroupInput(sh)] :
                   sh \in BoundedSeq(GroupShapes, MaxGroupLen)}
  /\ pureOut = Idle

\* the history view renders groupNotesByArticle of a note list
RunGroup ==
  /\ pureIn.kind = "group"
  /\ pureOut = Idle
  /\ pureOut' = [kind |-> "groups", groups |-> groupNotesByArticle(pureIn.notes)]
  /\ UNCHANGED <<withCache, user, view, formVars, streakVars, subs, nsub, storeVars,
                 listVars, hist, pureIn>>

NextGroup == RunGroup

SpecGroup == InitGroup /\ [][NextGroup]_vars

InitView ==
  /\ withCache = TRUE
  /\ SessionInit
  /\ pureIn \in {[kind |-> "view", notes |-> ns, filterBy |-> f, searchQuery |-> q,
                  sortBy |-> o] :
                   ns \in ViewInputs, f \in FilterOptions,
                   q \in ViewQueries, o \in SortOptions}
  /\ pureOut = Idle

\* the history view renders filterAndSortNotes of a note list
RunView ==
  /\ pureIn.kind = "view"
  /\ pureOut = Idle
  /\ LET call == filterAndSortNotesCall(pureIn.notes, pureIn.filterBy,
                                         pureIn.searchQuery, pureIn.sortBy)
     IN  pureOut' = [kind |-> "view",
                     notes |-> call.out,
                     input |-> call.input,
                     again |-> filterAndSortNotes(call.input, pureIn.filterBy,
                                                  pureIn.searchQuery, pureIn.sortBy)]
  /\ UNCHANGED <<withCache, user, view, formVars, streakVars, subs, nsub, storeVars,
                 listVars, hist, pureIn>>

NextView == RunView

SpecView == InitView /\ [][NextView]_vars

(* ------------------------------- claims ---------------------------------- *)
\* the step in which the notes insert of submission s, made by the open
\* modal, succeeds
SavedStep(s) ==
  /\ Live(s)
  /\ s.pc = "note"
  /\ Len(notesDb') = Len(notesDb) + 1
  /\ \E t \in subs' : t.sid = s.sid /\ t.outcome = "saved"

\* C24: after a successful handleSubmit the local notes list contains the
\* newly created note together with every note of the blog that a fetch has
\* delivered (none is dropped or duplicated), also when the initial fetchNotes
\* completes while the submission is in flight.
C24_NoNoteDropped ==
  [][withCache =>
       \A s \in subs :
         SavedStep(s) =>
           /\ notesDb'[Len(notesDb')] \in Range(notes')
           /\ Range(notes) \subseteq Range(notes')
           /\ \A i, j \in 1..Len(notes') : i # j => notes'[i].id # notes'[j].id]_vars

\* the notes of the blog as fetchNotes delivers them
StoredNotes == Reverse(notesDb)

\* the key of the group into which groupNotesByArticle puts note n
GroupKeyIn(groups, n) ==
  groups.keys[CHOOSE i \in 1..Len(groups.keys) : n \in Range(groups.at[i].notes)]

\* C27: for notes written by handleSubmit, the filter and the grouping agree:
\* every note kept by the 'with-article' filter is grouped under an article
\* key (never under "uncategorized"), and every note kept by
\* 'without-article' is grouped under "uncategorized".
C27_FilterAgreesWithGrouping ==
  LET groups == groupNotesByArticle(StoredNotes)
      with == filterAndSortNotes(StoredNotes, "with-article", <<>>, "newest")
      without == filterAndSortNotes(StoredNotes, "without-article", <<>>, "newest")
  IN  /\ \A n \in Range(with) : GroupKeyIn(groups, n) # "uncategorized"
      /\ \A n \in Range(without) : GroupKeyIn(groups, n) = "uncategorized"

Grouped == pureOut.kind = "groups"

GroupCount == Len(pureOut.groups.keys)

GroupAt(key) ==
  pureOut.groups.at[CHOOSE i \in 1..GroupCount : pureOut.groups.keys[i] = key]

HasGroup(key) == \E i \in 1..GroupCount : pureOut.groups.keys[i] = key

\* C6: the groups of groupNotesByArticle partition the input: all groups' notes
\* together are the input as a multiset, the keys are distinct, and no note is
\* in two groups.
C6_GroupsPartition ==
  Grouped =>
    LET g == pureOut.groups
        lists == [i \in 1..Len(g.at) |-> g.at[i].notes]
    IN  /\ SeqToBag(Flatten(lists)) = SeqToBag(pureIn.notes)
        /\ Len(g.at) = Len(g.keys)
        /\ \A i, j \in 1..Len(g.keys) :
             i # j => /\ g.keys[i] # g.keys[j]
                      /\ Range(lists[i]) \cap Range(lists[j]) = {}

C6_Witness ==
  /\ Grouped
  /\ GroupCount >= 2
  /\ \E i \in 1..GroupCount : Len(pureOut.groups.at[i].notes) >= 2

ThreeNotes == Grouped /\ Len(pureIn.notes) = 3

Untitled == {i \in 1..3 : pureIn.notes[i].article_title = NullStr}

TitledPost == {i \in 1..3 : pureIn.notes[i].article_title = Post}

\* the two untitled notes, in input order
UntitledInOrder ==
  LET IsUntitled(n) == n.article_title = NullStr
  IN  SelectSeq(pureIn.notes, IsUntitled)

\* the claim's result: "uncategorized" with the two untitled notes in input
\* order, and one other key with the "Post" note
TwoGroupsByTitle ==
  /\ GroupCount = 2
  /\ HasGroup("uncategorized")
  /\ GroupAt("uncategorized").notes = UntitledInOrder
  /\ \E i \in 1..GroupCount :
       /\ pureOut.groups.keys[i] # "uncategorized"
       /\ \E k \in TitledPost : pureOut.groups.at[i].notes = <<pureIn.notes[k]>>

\* C7 as stated: any three notes, two with article_title null and one titled
\* "Post", give exactly the two groups "uncategorized" (the untitled notes in
\* input order) and one more key (the "Post" note).
C7_Original ==
  (ThreeNotes /\ Cardinality(Untitled) = 2 /\ Cardinality(TitledPost) = 1)
    => TwoGroupsByTitle

\* the references agree with the titles: the untitled notes have no article
\* reference, the "Post" note has one
RefsFollowTitles ==
  /\ \A i \in Untitled : pureIn.notes[i].article_id = NoId
  /\ \A i \in TitledPost : pureIn.notes[i].article_id # NoId

\* where the references follow the titles the two groups are as described, the
\* second under the key of the "Post" note's article id
TwoGroupsWhenRefsFollowTitles ==
  (ThreeNotes /\ Cardinality(Untitled) = 2 /\ Cardinality(TitledPost) = 1
     /\ RefsFollowTitles)
    => /\ TwoGroupsByTitle
       /\ \A k \in TitledPost : HasGroup(ToString(pureIn.notes[k].article_id))

\* C8: within each group the notes are in the input's relative order: a group's
\* list is the input with the notes of the other keys struck out.
C8_GroupOrder ==
  Grouped =>
    \A i \in 1..GroupCount :
      LET SameKey(n) == GroupKey(n) = pureOut.groups.keys[i]
      IN  pureOut.groups.at[i].notes = SelectSeq(pureIn.notes, SameKey)

C8_Witness ==
  /\ Grouped
  /\ Len(pureIn.notes) = 3
  /\ GroupKey(pureIn.notes[1]) = GroupKey(pureIn.notes[3])
  /\ GroupKey(pureIn.notes[1]) # GroupKey(pureIn.notes[2])
  /\ pureIn.notes[1] # pureIn.notes[3]

Viewed == pureOut.kind = "view"

EqualIgnoringCase(a, b) == LowerChar(a) = LowerChar(b)

\* q occurs in s, letters compared without regard to case
OccursIgnoringCase(s, q) ==
  \E i \in 0..(Len(s) - Len(q)) :
    \A k \in 1..Len(q) : EqualIgnoringCase(s[i + k], q[k])

TitleNonEmpty(n) == n.article_title # NullStr /\ Len(n.article_title) > 0

FilterAsSpecified(f, n) ==
  \/ f = "all"
  \/ f = "with-article" /\ TitleNonEmpty(n)
  \/ f = "without-article" /\ ~TitleNonEmpty(n)

SearchAsSpecified(q, n) ==
  \/ q = <<>>
  \/ OccursIgnoringCase(n.excerpt, q)
  \/ OccursIgnoringCase(n.personal_note, q)
  \/ n.article_title # NullStr /\ OccursIgnoringCase(n.article_title, q)

\* C9: a note is in the output of filterAndSortNotes exactly when it is in the
\* input, passes the filter option and matches the search query.
C9_ViewMembership ==
  Viewed =>
    \A n \in ViewNotes :
      (n \in Range(pureOut.notes))
        <=> /\ n \in Range(pureIn.notes)
            /\ FilterAsSpecified(pureIn.filterBy, n)
            /\ SearchAsSpecified(pureIn.searchQuery, n)

C9_Witness ==
  /\ Viewed
  /\ pureIn.filterBy = "with-article"
  /\ pureIn.searchQuery = <<"P">>
  /\ Len(pureIn.notes) = 3
  /\ Len(pureOut.notes) = 1
  /\ pureOut.notes[1].article_title = Apple

TitleOf(n) == IF n.article_title = NullStr THEN <<>> ELSE n.article_title

OutTitles == [i \in 1..Len(pureOut.notes) |-> TitleOf(pureOut.notes[i])]

\* C10: the output of filterAndSortNotes is in descending created_at order for
\* 'newest', ascending for 'oldest', and for 'article' ascending by title with
\* a null or empty title counted as '' and placed first; titles
\* ["Zed", "", "Apple"] come out as ["", "Apple", "Zed"].
C10_ViewOrder ==
  Viewed =>
    LET out == pureOut.notes
    IN  /\ pureIn.sortBy = "newest" =>
             \A i, j \in 1..Len(out) : i < j => out[i].created_at >= out[j].created_at
        /\ pureIn.sortBy = "oldest" =>
             \A i, j \in 1..Len(out) : i < j => out[i].created_at <= out[j].created_at
        /\ pureIn.sortBy = "article" =>
             /\ \A i, j \in 1..Len(out) :
                  i < j => /\ localeCompare(TitleOf(out[i]), TitleOf(out[j])) <= 0
                           /\ TitleOf(out[j]) = <<>> => TitleOf(out[i]) = <<>>
             /\ ( /\ pureIn.filterBy = "all"
                  /\ pureIn.searchQuery = <<>>
                  /\ [i \in 1..Len(pureIn.notes) |-> pureIn.notes[i].article_title]
                       = <<Zed, <<>>, Apple>> )
                  => OutTitles = <<<<>>, Apple, Zed>>

C10_Witness ==
  /\ Viewed
  /\ pureIn.sortBy = "article"
  /\ pureIn.filterBy = "all"
  /\ pureIn.searchQuery = <<>>
  /\ [i \in 1..Len(pureIn.notes) |-> pureIn.notes[i].article_title] = <<Zed, <<>>, Apple>>
  /\ OutTitles = <<<<>>, Apple, Zed>>

(* ------------------------------- exports ---------------------------------- *)
\* Text is a sequence of one-character strings; a literal of the source that
\* holds no quote, comma or line break may stand in it as one element.
Quote == "\""

ExportFormats == {"markdown", "json", "csv"}

\* `cell.replace(/"/g, '""')` applied to the first quote only
RECURSIVE ReplaceFirstQuote(_)
ReplaceFirstQuote(cell) ==
  IF cell = <<>> THEN <<>>
  ELSE IF Head(cell) = Quote THEN <<Quote, Quote>> \o Tail(cell)
  ELSE <<Head(cell)>> \o ReplaceFirstQuote(Tail(cell))

\* `cell.replace(/"/g, '""')`
RECURSIVE ReplaceQuotes(_)
ReplaceQuotes(cell) ==
  IF cell = <<>> THEN <<>>
  ELSE (IF Head(cell) = Quote THEN <<Quote, Quote>> ELSE <<Head(cell)>>)
         \o ReplaceQuotes(Tail(cell))

\* `"${cell.replace(/"/g, '""')}"`
CsvCell(cell) == <<Quote>> \o ReplaceQuotes(cell) \o <<Quote>>

\* Array.prototype.join
RECURSIVE Join(_, _)
Join(parts, sep) ==
  IF parts = <<>> THEN <<>>
  ELSE IF Len(parts) = 1 THEN parts[1]
  ELSE parts[1] \o sep \o Join(Tail(parts), sep)

CsvRow(row) == Join([i \in 1..Len(row) |-> CsvCell(row[i])], <<",">>)

CsvText(rows) == Join([i \in 1..Len(rows) |-> CsvRow(rows[i])], <<"\n">>)

\* `new Date(note.created_at).toLocaleString()`
LocaleString(created_at) == <<"1", "/", ToString(created_at), ",", " ", "9", ":", "0">>

UnknownBlog == <<"Unknown Blog">>

\* `blogMap.get(note.blog_id) || 'Unknown Blog'`
BlogNameOf(blogs, blog_id) ==
  LET known == {b \in blogs : b.id = blog_id}
  IN  IF known = {} THEN UnknownBlog
      ELSE LET name == (CHOOSE b \in known : TRUE).name
           IN  IF name = <<>> THEN UnknownBlog ELSE name

\* ExportNotes: formatNotesAsCSV
formatNotesAsCSV(ns, blogs) ==
  LET headers == <<<<"Blog">>, <<"Article Title">>, <<"Article URL">>, <<"Excerpt">>,
                   <<"Personal Note">>, <<"Created At">>>>
      rows == [i \in 1..Len(ns) |->
                 <<BlogNameOf(blogs, ns[i].blog_id),
                   OrEmpty(ns[i].article_title),
                   OrEmpty(ns[i].article_url),
                   ns[i].excerpt,
                   ns[i].personal_note,
                   LocaleString(ns[i].created_at)>>]
  IN  CsvText(<<headers>> \o rows)

\* BlogNotes handleExport: the CSV branch
BlogCsv(ns) ==
  LET headers == <<<<"Article Title">>, <<"Article URL">>, <<"Excerpt">>,
                   <<"Personal Note">>, <<"Created At">>>>
      rows == [i \in 1..Len(ns) |->
                 <<OrEmpty(ns[i].article_title),
                   OrEmpty(ns[i].article_url),
                   ns[i].excerpt,
                   ns[i].personal_note,
                   LocaleString(ns[i].created_at)>>]
  IN  CsvText(<<headers>> \o rows)

\* ExportNotes: formatNotesAsJSON; the text is the array of these objects
formatNotesAsJSON(ns, blogs) ==
  [i \in 1..Len(ns) |->
     [f \in DOMAIN ns[i] \cup {"blog_name"} |->
        IF f = "blog_name" THEN BlogNameOf(blogs, ns[i].blog_id) ELSE ns[i][f]]]

\* BlogNotes handleExport: `JSON.stringify(notesData, null, 2)`
BlogJson(ns) == ns

\* the first-seen order of the blog names (the keys of notesByBlog)
RECURSIVE BlogNamesInOrder(_, _, _)
BlogNamesInOrder(ns, blogs, seen) ==
  IF ns = <<>> THEN seen
  ELSE LET name == BlogNameOf(blogs, Head(ns).blog_id)
       IN  BlogNamesInOrder(Tail(ns), blogs,
                            IF \E i \in 1..Len(seen) : seen[i] = name
                              THEN seen ELSE Append(seen, name))

\* ExportNotes formatNotesAsMarkdown: one note
MarkdownNote(note) ==
  (IF Truthy(note.article_title)
     THEN <<"### ">> \o note.article_title \o <<"\n">> \o
          (IF Truthy(note.article_url)
             THEN <<"[View Article](">> \o note.article_url \o <<")\n">>
             ELSE <<>>)
     ELSE <<>>)
  \o <<"\n#### Excerpt\n">> \o note.excerpt \o <<"\n\n">>
  \o <<"#### Personal Note\n">> \o note.personal_note \o <<"\n\n">>
  \o <<"_Added on ">> \o LocaleString(note.created_at) \o <<"_\n\n---\n\n">>

RECURSIVE Concat(_)
Concat(parts) == IF parts = <<>> THEN <<>> ELSE Head(parts) \o Concat(Tail(parts))

\* ExportNotes: formatNotesAsMarkdown
formatNotesAsMarkdown(ns, blogs) ==
  LET names == BlogNamesInOrder(ns, blogs, <<>>)
      Section(name) ==
        LET OfBlog(n) == BlogNameOf(blogs, n.blog_id) = name
            blogNotes == SelectSeq(ns, OfBlog)
        IN  <<"## ">> \o name \o <<"\n\n">>
              \o Concat([i \in 1..Len(blogNotes) |-> MarkdownNote(blogNotes[i])])
  IN  <<"# My Notes\n\n">> \o Concat([k \in 1..Len(names) |-> Section(names[k])])

UntitledArticle == <<"Untitled Article">>

\* BlogNotes handleExport, markdown branch: one note
BlogMarkdownNote(note) ==
  <<"## ">> \o (IF Truthy(note.article_title) THEN note.article_title ELSE UntitledArticle)
           \o <<"\n">>
  \o (IF Truthy(note.article_url)
        THEN <<"[View Article](">> \o note.article_url \o <<")\n\n">>
        ELSE <<>>)
  \o <<"### Excerpt\n">> \o note.excerpt \o <<"\n\n">>
  \o <<"### Your Notes\n">> \o note.personal_note \o <<"\n\n">>
  \o <<"_Added on ">> \o LocaleString(note.created_at) \o <<"_\n\n---\n\n">>

\* BlogNotes handleExport, markdown branch
BlogMarkdown(ns, blogName) ==
  <<"# Notes from ">> \o blogName \o <<"\n\n">>
    \o Concat([i \in 1..Len(ns) |-> BlogMarkdownNote(ns[i])])

\* `.replace(/\s+/g, '-')`
RECURSIVE ReplaceSpaceRuns(_)
ReplaceSpaceRuns(name) ==
  IF name = <<>> THEN <<>>
  ELSE IF IsSpace(Head(name))
    THEN <<"-">> \o ReplaceSpaceRuns(TrimStart(name))
    ELSE <<Head(name)>> \o ReplaceSpaceRuns(Tail(name))

\* BlogNotes handleExport: fileName
BlogFileName(blogName) == ReplaceSpaceRuns(ToLowerCase(blogName)) \o <<"-notes">>

\* ExportNotes handleExport: fileExtension
fileExtension(format) ==
  CASE format = "markdown" -> "md"
    [] format = "json" -> "json"
    [] format = "csv" -> "csv"

\* the notes in the store: with and without a title, of a blog that is in the
\* blogs table (1) and of one that is not (2), with quotes, commas and line
\* breaks in their texts
ExportTexts ==
  <<<<"A", Quote, "B">>, <<"x">>, <<Quote, Quote>>, <<",", "\n">>, <<"x", Quote>>>>

ExportPool ==
  {[id |-> k,
    blog_id |-> IF k \in {3, 5} THEN 2 ELSE 1,
    article_id |-> IF k \in {1, 4} THEN k ELSE NoId,
    article_title |-> CASE k = 1 -> Post [] k = 4 -> Ant [] k = 5 -> Zed [] OTHER -> NullStr,
    article_url |-> IF k \in {1, 4} THEN <<"u">> ELSE NullStr,
    excerpt |-> ExportTexts[k],
    personal_note |-> ExportTexts[6 - k],
    created_at |-> k] : k \in 1..5}

\* what `.order('created_at', { ascending: false })` returns of a set of rows
RECURSIVE NewestNotesFirst(_)
NewestNotesFirst(rows) ==
  IF rows = {} THEN <<>>
  ELSE LET r == CHOOSE x \in rows : \A y \in rows : y.created_at <= x.created_at
       IN  <<r>> \o NewestNotesFirst(rows \ {r})

ExportBlogNames == {Zed, <<"A", " ", " ", "B">>}

\* the blog the BlogNotes modal is open for
ExportBlogId == 1

InitExport ==
  /\ withCache = FALSE
  /\ SessionInit
  /\ pureIn \in {[kind |-> "export", path |-> path, format |-> format,
                  blogName |-> blogName,
                  rows |-> NewestNotesFirst(rows),
                  blogs |-> blogs, hasUser |-> hasUser, notesFail |-> notesFail] :
                   path \in {"all", "blog"}, format \in ExportFormats,
                   blogName \in ExportBlogNames,
                   rows \in {r \in SUBSET ExportPool : Cardinality(r) <= MaxExportLen},
                   blogs \in {{}, {[id |-> 1, name |-> Zed]}},
                   hasUser \in BOOLEAN, notesFail \in BOOLEAN}
  /\ pureOut = Idle

\* handleExport up to its first await: the busy flag is set (ExportNotes also
\* clears the error)
ExportStart ==
  /\ pureIn.kind = "export"
  /\ pureOut = Idle
  /\ pureOut' = [kind |-> "exporting", loading |-> TRUE, error |-> NoError,
                 formatted |-> FALSE, files |-> <<>>]
  /\ UNCHANGED <<withCache, user, view, formVars, streakVars, subs, nsub, storeVars,
                 listVars, hist, pureIn>>

\* the catch and finally blocks of handleExport
ExportFailed(message) ==
  [kind |-> "exported", loading |-> FALSE, error |-> message,
   formatted |-> FALSE, files |-> <<>>]

\* the download of the formatted text, and the finally block
ExportDone(name, content) ==
  [kind |-> "exported", loading |-> FALSE, error |-> pureOut.error,
   formatted |-> TRUE, files |-> <<[name |-> name, content |-> content]>>]

\* ExportNotes: fetchAllNotes and the rest of handleExport
ExportAll ==
  IF ~pureIn.hasUser THEN ExportFailed("User not found")
  ELSE IF pureIn.notesFail THEN ExportFailed("Failed to export notes")
  ELSE IF pureIn.rows = <<>> THEN ExportFailed("No notes found to export")
  ELSE ExportDone(<<"my", "-notes", ".", fileExtension(pureIn.format)>>,
                  CASE pureIn.format = "markdown" ->
                         formatNotesAsMarkdown(pureIn.rows, pureIn.blogs)
                    [] pureIn.format = "json" ->
                         formatNotesAsJSON(pureIn.rows, pureIn.blogs)
                    [] pureIn.format = "csv" ->
                         formatNotesAsCSV(pureIn.rows, pureIn.blogs))

\* BlogNotes handleExport without `if (notesError) throw notesError`
ExportBlogUnchecked ==
  LET OfBlog(n) == n.blog_id = ExportBlogId
      notesData == IF pureIn.notesFail THEN <<>> ELSE SelectSeq(pureIn.rows, OfBlog)
  IN  ExportDone(BlogFileName(pureIn.blogName) \o <<".", pureIn.format>>,
                 CASE pureIn.format = "markdown" ->
                        BlogMarkdown(notesData, pureIn.blogName)
                   [] pureIn.format = "json" -> BlogJson(notesData)
                   [] pureIn.format = "csv" -> BlogCsv(notesData))

\* BlogNotes: the rest of handleExport
ExportBlog ==
  LET OfBlog(n) == n.blog_id = ExportBlogId
      notesData == SelectSeq(pureIn.rows, OfBlog)
  IN  IF pureIn.notesFail THEN ExportFailed("Failed to export notes")
      ELSE ExportDone(BlogFileName(pureIn.blogName) \o <<".", pureIn.format>>,
                      CASE pureIn.format = "markdown" ->
                             BlogMarkdown(notesData, pureIn.blogName)
                        [] pureIn.format = "json" -> BlogJson(notesData)
                        [] pureIn.format = "csv" -> BlogCsv(notesData))

\* the store answered
ExportSettle ==
  /\ pureOut.kind = "exporting"
  /\ pureOut' = IF pureIn.path = "all" THEN ExportAll ELSE ExportBlog
  /\ UNCHANGED <<withCache, user, view, formVars, streakVars, subs, nsub, storeVars,
                 listVars, hist, pureIn>>

NextExport == ExportStart \/ ExportSettle

SpecExport == InitExport /\ [][NextExport]_vars

\* an export ran to its end
Exported == pureOut.kind = "exported"

\* the notes the export's query returns
ExportedNotes ==
  LET OfBlog(n) == n.blog_id = ExportBlogId
  IN  IF pureIn.path = "all" THEN pureIn.rows ELSE SelectSeq(pureIn.rows, OfBlog)

\* a file was handed to the browser
FileMade == Exported /\ pureOut.files # <<>>

FileContent == pureOut.files[1].content

\* Reading quoted comma-separated text back.  A position is outside the
\* quoted fields when an even number of quotes stands before it (a doubled
\* quote counts twice); commas and line breaks outside quotes end the fields
\* and the rows.
OutsideQuotes(text, i) == Cardinality({k \in 1..(i - 1) : text[k] = Quote}) % 2 = 0

SplitOutsideQuotes(text, sep) ==
  LET breaks == {i \in 1..Len(text) : text[i] = sep /\ OutsideQuotes(text, i)}
      n == Cardinality(breaks)
      BreakAt(k) == CHOOSE b \in breaks : Cardinality({c \in breaks : c < b}) = k - 1
  IN  [k \in 1..(n + 1) |->
         SubSeq(text,
                IF k = 1 THEN 1 ELSE BreakAt(k - 1) + 1,
                IF k = n + 1 THEN Len(text) ELSE BreakAt(k) - 1)]

\* two quotes are one quote
RECURSIVE Undouble(_)
Undouble(cell) ==
  IF cell = <<>> THEN <<>>
  ELSE IF Len(cell) >= 2 /\ cell[1] = Quote /\ cell[2] = Quote
    THEN <<Quote>> \o Undouble(Tail(Tail(cell)))
    ELSE <<Head(cell)>> \o Undouble(Tail(cell))

\* the outer quotes stripped, the inner quotes un-doubled
Unquote(field) ==
  IF Len(field) >= 2 /\ field[1] = Quote /\ field[Len(field)] = Quote
    THEN Undouble(SubSeq(field, 2, Len(field) - 1))
    ELSE field

ParseCsv(text) ==
  LET lines == SplitOutsideQuotes(text, "\n")
  IN  [r \in 1..Len(lines) |->
         LET fields == SplitOutsideQuotes(lines[r], ",")
         IN  [c \in 1..Len(fields) |-> Unquote(fields[c])]]

\* the columns of the excerpt and of the personal note
ExcerptColumn == IF pureIn.path = "all" THEN 4 ELSE 3

CsvMade == FileMade /\ pureIn.format = "csv"

\* C13: in both CSV exports every field is wrapped in double quotes with each
\* inner double quote doubled, so that reading the field back gives the
\* excerpt and the personal note exactly; the excerpt A"B is written "A""B".
C13_CsvRoundTrip ==
  CsvMade =>
    LET table == ParseCsv(FileContent)
        ns == ExportedNotes
    IN  /\ Len(table) = Len(ns) + 1
        /\ \A i \in 1..Len(ns) :
             /\ Len(table[i + 1]) = ExcerptColumn + 2
             /\ table[i + 1][ExcerptColumn] = ns[i].excerpt
             /\ table[i + 1][ExcerptColumn + 1] = ns[i].personal_note
             /\ ns[i].excerpt = <<"A", Quote, "B">> =>
                  Includes(FileContent, <<",", Quote, "A", Quote, Quote, "B", Quote, ",">>)

C13_Witness ==
  /\ CsvMade
  /\ \E i \in 1..Len(ExportedNotes) : ExportedNotes[i].excerpt = <<"A", Quote, "B">>
  /\ \E i \in 1..Len(ExportedNotes) : ExportedNotes[i].personal_note = <<Quote, Quote>>
  /\ Includes(FileContent, <<",", Quote, "A", Quote, Quote, "B", Quote, ",">>)

\* the notes query of the export was issued and answered with rows
QueryAnswered == Exported /\ ~pureIn.notesFail /\ (pureIn.path = "all" => pureIn.hasUser)

\* the blog's name from the lookup, or "Unknown Blog"
LookedUpName(blog_id) ==
  IF \E b \in pureIn.blogs : b.id = blog_id
    THEN (CHOOSE b \in pureIn.blogs : b.id = blog_id).name
    ELSE UnknownBlog

\* C14: every JSON export (all notes, and the notes of one blog) emits one
\* object per note with every field of the note and a blog_name field: the
\* blog's name from the lookup, or "Unknown Blog" when the blog id is not in it.
C14_JsonBlogName ==
  (FileMade /\ pureIn.format = "json") =>
    /\ Len(FileContent) = Len(ExportedNotes)
    /\ \A i \in 1..Len(ExportedNotes) :
         /\ DOMAIN ExportedNotes[i] \subseteq DOMAIN FileContent[i]
         /\ \A f \in DOMAIN ExportedNotes[i] : FileContent[i][f] = ExportedNotes[i][f]
         /\ "blog_name" \in DOMAIN FileContent[i]
         /\ FileContent[i].blog_name = LookedUpName(ExportedNotes[i].blog_id)

\* C15: the export of an empty note collection succeeds in all three formats:
\* a document (header only, or with an empty body) is produced and no error
\* is reported.
C15_EmptyExportSucceeds ==
  (QueryAnswered /\ ExportedNotes = <<>>) =>
    /\ FileMade
    /\ pureOut.error = NoError

\* the headings that read "Untitled Article"
UntitledHeadings ==
  {i \in 2..Len(FileContent) :
     FileContent[i] = "Untitled Article" /\ FileContent[i - 1] \in {"## ", "### "}}

\* C16: in the Markdown export every note whose article title is absent is
\* rendered under a literal "Untitled Article" heading, in the export of all
\* notes and in the export of one blog.
C16_UntitledHeading ==
  (FileMade /\ pureIn.format = "markdown") =>
    Cardinality(UntitledHeadings)
      = Cardinality({i \in 1..Len(ExportedNotes) : ~Truthy(ExportedNotes[i].article_title)})

\* C17: for every format and both export paths the suggested file name is
\* '<sanitized blog name or "my">-notes.<ext>' with ext one of md, json, csv.
C17_FileName ==
  FileMade =>
    LET name == pureOut.files[1].name
        n == Len(name)
    IN  /\ n >= 4
        /\ name[n] \in {"md", "json", "csv"}
        /\ name[n - 1] = "."
        /\ name[n - 2] = "-notes"
        /\ IF pureIn.path = "all"
             THEN SubSeq(name, 1, n - 3) = <<"my">>
             ELSE \A k \in 1..(n - 3) : ~IsSpace(name[k]) /\ ~IsUpperChar(name[k])

\* C18: if the notes query fails during an export no formatter runs and no
\* file is produced: the failure is surfaced as an error message and the busy
\* flag is cleared.
C18_FailedQueryNoFile ==
  (Exported /\ pureIn.notesFail /\ (pureIn.path = "all" => pureIn.hasUser)) =>
    /\ ~pureOut.formatted
    /\ pureOut.files = <<>>
    /\ pureOut.error # NoError
    /\ ~pureOut.loading

C18_Witness ==
  /\ Exported
  /\ pureIn.notesFail
  /\ pureIn.hasUser
  /\ pureIn.rows # <<>>
  /\ pureOut.files = <<>>
  /\ pureOut.error = "Failed to export notes"

(* --------------------------- recommendations ------------------------------ *)
\* `.slice(0, 5)`
TopN == 5

Beginner == <<"b", "e", "g", "i", "n", "n", "e", "r">>
Advanced == <<"a", "d", "v", "a", "n", "c", "e", "d">>

\* the `levels` table of getExpertiseScore
LevelScore(level) ==
  CASE level = "beginner" -> 1
    [] level = "intermediate" -> 2
    [] level = "advanced" -> 3
    [] level = "expert" -> 4

RECURSIVE Sum(_)
Sum(xs) == IF xs = <<>> THEN 0 ELSE Head(xs) + Sum(Tail(xs))

\* getExpertiseScore: the quotient sum / scores.length as the pair of its
\* terms; 0 / 0 is NaN
getExpertiseScore(expertise) ==
  [num |-> Sum([i \in 1..Len(expertise) |-> LevelScore(expertise[i])]),
   den |-> Len(expertise)]

IsNaN(q) == q.den = 0

\* `q >= k` and `q <= k` of JavaScript numbers: false when q is NaN
AtLeast(q, k) == ~IsNaN(q) /\ q.num >= k * q.den
AtMost(q, k) == ~IsNaN(q) /\ q.num <= k * q.den

\* `text?.toLowerCase().includes(word)`
LowerIncludes(text, word) == text # NullStr /\ Includes(ToLowerCase(text), word)

\* the interests forEach: 2 for every interest found in the title or blog name
InterestPoints(article, interests) ==
  2 * Cardinality({i \in 1..Len(interests) :
                     \/ LowerIncludes(article.title, ToLowerCase(interests[i]))
                     \/ LowerIncludes(article.blog_name, ToLowerCase(interests[i]))})

\* the score the map callback gives an article
ArticleScore(article, profile) ==
  LET expertiseLevel == getExpertiseScore(profile.expertise_areas)
  IN  InterestPoints(article, profile.interests)
        + (IF LowerIncludes(article.title, Advanced) /\ AtLeast(expertiseLevel, 3)
             THEN 1 ELSE 0)
        + (IF LowerIncludes(article.title, Beginner) /\ AtMost(expertiseLevel, 2)
             THEN 1 ELSE 0)

\* a ranker without `.filter(article => !article.is_read)`
KeepAll(rows) == rows

\* `.filter(article => !article.is_read)`
FilterUnread(rows) ==
  LET Unread(a) == ~a.is_read
  IN  SelectSeq(rows, Unread)

\* `.sort((a, b) => b.score - a.score)`: stable
RankInsert(sorted, x) ==
  LET after == {i \in 1..Len(sorted) : x.score - sorted[i].score > 0}
      pos == IF after = {} THEN Len(sorted) + 1
             ELSE CHOOSE k \in after : \A m \in after : k <= m
  IN  SubSeq(sorted, 1, pos - 1) \o <<x>> \o SubSeq(sorted, pos, Len(sorted))

RECURSIVE RankSort(_, _)
RankSort(sorted, rest) ==
  IF rest = <<>> THEN sorted ELSE RankSort(RankInsert(sorted, Head(rest)), Tail(rest))

\* rankedArticles
rankedArticles(rows, profile) ==
  LET unread == FilterUnread(rows)
      scored == [i \in 1..Len(unread) |->
                   [f \in DOMAIN unread[i] \cup {"score"} |->
                      IF f = "score" THEN ArticleScore(unread[i], profile)
                      ELSE unread[i][f]]]
      sorted == RankSort(<<>>, scored)
  IN  SubSeq(sorted, 1, IF Len(sorted) < TopN THEN Len(sorted) ELSE TopN)

RankTitles == <<<<"B", "e", "g", "i", "n", "n", "e", "r">>, Advanced, Ant, Post, Zed, Apple, Post>>

\* the rows of the articles table, with the name of the joined blog
RankPool ==
  {[id |-> k,
    title |-> RankTitles[k],
    blog_name |-> CASE k \in {1, 6} -> Zed [] k \in {2, 3, 7} -> Ant [] OTHER -> Post,
    is_read |-> (k = 6)] : k \in 1..7}

NoProfile == [interests |-> <<>>, expertise_areas |-> <<>>, missing |-> TRUE]

\* the rows of user_profiles: expertise_areas as the list of its values
RankProfiles ==
  {[interests |-> i, expertise_areas |-> e, missing |-> FALSE] :
     i \in {<<>>, <<<<"Z", "e">>, Ant>>},
     e \in {<<>>, <<"beginner">>, <<"expert">>, <<"advanced", "intermediate">>}}

RankInputs ==
  {as \in BoundedSeq(RankPool, MaxRankLen) :
     \A i, j \in 1..Len(as) : i # j => as[i].id # as[j].id}

InitRank ==
  /\ withCache = TRUE
  /\ SessionInit
  /\ pureIn \in {[kind |-> "rank", hasUser |-> TRUE, profile |-> p, articles |-> as] :
                   p \in RankProfiles, as \in RankInputs}
               \cup {[kind |-> "rank", hasUser |-> u, profile |-> NoProfile,
                      articles |-> as] :
                       u \in BOOLEAN, as \in {a \in RankInputs : Len(a) <= 1}}
  /\ pureOut = Idle

\* what the component shows after fetchUserProfileAndRecommendations
Ranked(recommendations, message, profile) ==
  [kind |-> "ranked", loading |-> FALSE, error |-> message,
   recommendations |-> recommendations, userProfile |-> profile]

\* ArticleRecommendations: the mount effect runs fetchUserProfileAndRecommendations
fetchUserProfileAndRecommendations ==
  /\ pureIn.kind = "rank"
  /\ pureOut = Idle
  /\ pureOut' =
       IF ~pureIn.hasUser
         THEN Ranked(<<>>, "Please sign in to see recommendations", NoProfile)
       ELSE IF pureIn.profile.missing
         THEN Ranked(<<>>, "Please set up your AI profile to see personalized recommendations",
                     NoProfile)
       ELSE IF pureIn.articles = <<>>
         THEN Ranked(<<>>, NoError, pureIn.profile)
       ELSE Ranked(rankedArticles(pureIn.articles, pureIn.profile), NoError, pureIn.profile)
  /\ UNCHANGED <<withCache, user, view, formVars, streakVars, subs, nsub, storeVars,
                 listVars, hist, pureIn>>

NextRank == fetchUserProfileAndRecommendations

SpecRank == InitRank /\ [][NextRank]_vars

\* a recommendation list was computed from a profile
RankedList == pureOut.kind = "ranked" /\ pureOut.error = NoError

\* where an article stood in the query result
RankInputPos(a) == CHOOSE i \in 1..Len(pureIn.articles) : pureIn.articles[i].id = a.id

\* article a goes before article b: higher score, or equal score and earlier
\* in the input
RanksBefore(a, b) ==
  LET sa == ArticleScore(a, pureIn.profile)
      sb == ArticleScore(b, pureIn.profile)
  IN  sa > sb \/ (sa = sb /\ RankInputPos(a) < RankInputPos(b))

\* C19: the recommendation list is the first 5 of the unread articles sorted by
\* descending score: it holds no article with is_read true, has at most 5
\* entries, and articles with equal scores appear in their input order.
C19_TopUnread ==
  RankedList =>
    LET rec == pureOut.recommendations
        unread == {i \in 1..Len(pureIn.articles) : ~pureIn.articles[i].is_read}
        chosen == {i \in unread : \E k \in 1..Len(rec) : rec[k].id = pureIn.articles[i].id}
    IN  /\ Len(rec) <= 5
        /\ Len(rec) = (IF Cardinality(unread) < 5 THEN Cardinality(unread) ELSE 5)
        /\ Cardinality(chosen) = Len(rec)
        /\ \A k \in 1..Len(rec) : ~rec[k].is_read
        /\ \A k \in 1..Len(rec) : rec[k].score = ArticleScore(rec[k], pureIn.profile)
        /\ \A k, m \in 1..Len(rec) : k < m => RanksBefore(rec[k], rec[m])
        /\ \A i \in unread \ chosen :
             \A k \in 1..Len(rec) : RanksBefore(rec[k], pureIn.articles[i])

C19_Witness ==
  /\ RankedList
  /\ Len(pureIn.articles) = 6
  /\ \A i \in 1..6 : ~pureIn.articles[i].is_read
  /\ Len(pureOut.recommendations) = 5
  /\ pureOut.recommendations # SubSeq(pureIn.articles, 1, 5)
  /\ pureOut.recommendations[2].score = pureOut.recommendations[3].score
  /\ pureOut.recommendations[1].score > pureOut.recommendations[5].score

\* C20: with an empty expertise map the aggregate expertise score the ranker
\* uses is 0 (not an undefined value), so an unread article whose title
\* contains "beginner" receives the +1 beginner bonus.
C20_EmptyExpertiseIsZero ==
  (RankedList /\ pureIn.profile.expertise_areas = <<>>) =>
    \A k \in 1..Len(pureOut.recommendations) :
      LET a == pureOut.recommendations[k]
      IN  LowerIncludes(a.title, Beginner) =>
            /\ ~IsNaN(getExpertiseScore(pureIn.profile.expertise_areas))
            /\ a.score = InterestPoints(a, pureIn.profile.interests) + 1

(* ------------------------------ busy flags -------------------------------- *)
\* a note-entry session, or one export (of at most one note of blog "Zed")
InitBusy ==
  \/ Init
  \/ /\ InitExport
     /\ pureIn.blogName = Zed
     /\ pureIn.blogs = {}
     /\ Len(pureIn.rows) <= 1

NoteSession == pureIn = Idle

\* the store answers call s of handleSubmit, one way or the other
SubmitAnswered(s) ==
  \/ GetUserDone(s)
  \/ ArticleInsertOk(s)
  \/ ArticleInsertRejected(s)
  \/ NoteInsertOk(s)
  \/ NoteInsertRejected(s)
  \/ RefetchDone(s)

NextBusy ==
  \/ NoteSession /\ OpenNotes
  \/ NoteSession /\ FetchNotesDone
  \/ NoteSession /\ \E t \in TitleInputs : EditTitle(t)
  \/ NoteSession /\ \E u \in UrlInputs : EditUrl(u)
  \/ NoteSession /\ handleClose
  \/ NoteSession /\ \E e \in TextInputs, p \in TextInputs : SubmitStart(e, p)
  \/ \E s \in subs : SubmitAnswered(s)
  \/ ExportStart
  \/ ExportSettle

\* every call that a mounted component awaits, to the store or to the Identity
\* Provider, is answered in the end (with data or with an error): the awaited
\* promises settle
AnswersArrive ==
  /\ WF_vars(\E s \in subs : Live(s) /\ SubmitAnswered(s))
  /\ WF_vars(ExportSettle)

SpecBusy == InitBusy /\ [][NextBusy]_vars /\ AnswersArrive

\* the busy flag of handleExport is set
ExportBusy == pureOut.kind = "exporting" /\ pureOut.loading

\* C29: every handleSubmit and every handleExport eventually resets its busy
\* flag (loading / exportLoading) to false, whether its store calls succeed or
\* fail, so the Save Note and Export Notes buttons are never left permanently
\* disabled.
C29_BusyFlagsReset == (loading ~> ~loading) /\ (ExportBusy ~> ~ExportBusy)

C29_Witness ==
  /\ ~loading
  /\ view = "notes"
  /\ \E s \in subs : Live(s) /\ s.outcome = "noteRejected"

(* --------------------------------- Blogs ---------------------------------- *)
\* the rows of the blogs table, ordered by name: never visited, or visited
\* some time ago
VisitInputs ==
  UNION {[1..k -> {"null", "old"}] : k \in 1..MaxBlogs}

BlogRows(visited) == [i \in 1..Len(visited) |-> [id |-> i, last_visited |-> visited[i]]]

InitVisit ==
  /\ withCache = TRUE
  /\ SessionInit
  /\ pureIn \in {[kind |-> "visit", blogs |-> BlogRows(v)] : v \in VisitInputs}
  /\ pureOut = Idle

\* the mount effect: fetchBlogs delivers the rows
fetchBlogs ==
  /\ pureIn.kind = "visit"
  /\ pureOut = Idle
  /\ pureOut' = [kind |-> "blogs", blogs |-> pureIn.blogs, store |-> pureIn.blogs,
                 calls |-> {}, started |-> 0, clicks |-> 0, opened |-> FALSE,
                 failed |-> FALSE]
  /\ UNCHANGED <<withCache, user, view, formVars, streakVars, subs, nsub, storeVars,
                 listVars, hist, pureIn>>

\* handleVisit up to its await: the update is sent; `blogs` is the list of the
\* render in which the handler was made
VisitCall(blog, n) == [n |-> n, id |-> blog.id, snap |-> pureOut.blogs]

\* the Visit button of one blog
handleVisit(i) ==
  /\ pureOut.kind = "blogs"
  /\ pureOut.clicks < MaxVisits
  /\ pureOut' = [pureOut EXCEPT
                   !.calls = @ \cup {VisitCall(pureOut.blogs[i], pureOut.started + 1)},
                   !.started = @ + 1,
                   !.clicks = @ + 1]
  /\ UNCHANGED <<withCache, user, view, formVars, streakVars, subs, nsub, storeVars,
                 listVars, hist, pureIn>>

\* `blogs.forEach(blog => handleVisit(blog))`
openAllBlogs ==
  /\ pureOut.kind = "blogs"
  /\ ~pureOut.opened
  /\ pureOut' = [pureOut EXCEPT
                   !.calls = @ \cup {VisitCall(pureOut.blogs[i], pureOut.started + i) :
                                       i \in 1..Len(pureOut.blogs)},
                   !.started = @ + Len(pureOut.blogs),
                   !.opened = TRUE]
  /\ UNCHANGED <<withCache, user, view, formVars, streakVars, subs, nsub, storeVars,
                 listVars, hist, pureIn>>

\* `b.id === blog.id ? { ...b, last_visited: new Date().toISOString() } : b`
MarkVisited(rows, id) ==
  [k \in 1..Len(rows) |->
     IF rows[k].id = id THEN [rows[k] EXCEPT !.last_visited = "now"] ELSE rows[k]]

\* `setBlogs(blogs.map(...))`: the list captured by the call, with its blog marked
VisitedInCaptured(c) == MarkVisited(c.snap, c.id)

\* the store answered the update of call c: on an error the handler returns
VisitSettle(c) ==
  /\ pureOut.kind = "blogs"
  /\ c \in pureOut.calls
  /\ \/ pureOut' = [pureOut EXCEPT !.calls = @ \ {c},
                                   !.store = MarkVisited(@, c.id),
                                   !.blogs = VisitedInCaptured(c)]
     \/ pureOut' = [pureOut EXCEPT !.calls = @ \ {c}, !.failed = TRUE]
  /\ UNCHANGED <<withCache, user, view, formVars, streakVars, subs, nsub, storeVars,
                 listVars, hist, pureIn>>

NextVisit ==
  \/ fetchBlogs
  \/ \E i \in 1..MaxBlogs : i <= Len(pureIn.blogs) /\ handleVisit(i)
  \/ openAllBlogs
  \/ \E c \in (IF pureOut.kind = "blogs" THEN pureOut.calls ELSE {}) : VisitSettle(c)

SpecVisit == InitVisit /\ [][NextVisit]_vars

\* 'Open All Blogs' has run and every update has been answered without error
AllVisitsDone ==
  /\ pureOut.kind = "blogs"
  /\ pureOut.opened
  /\ pureOut.calls = {}
  /\ ~pureOut.failed

\* C25: after 'Open All Blogs' has run and every last_visited update has
\* succeeded, the local blog list shows a non-null last_visited for every
\* blog, in agreement with the store: no blog's local update is overwritten by
\* another handleVisit completing later.
C25_AllBlogsVisited ==
  AllVisitsDone =>
    /\ \A i \in 1..Len(pureOut.blogs) : pureOut.blogs[i].last_visited # "null"
    /\ pureOut.blogs = pureOut.store

(* ------------------ ArticleRecommendations: mark as read ------------------ *)
\* the user's profile row
ReadProfile == [interests |-> <<<<"Z", "e">>, Ant>>, expertise_areas |-> <<"beginner">>,
                missing |-> FALSE]

\* the articles rows at the mount, in the order of the query: unread, with a
\* null date_read
ReadStores ==
  {[i \in 1..Len(as) |->
      [f \in DOMAIN as[i] \cup {"date_read"} |->
         IF f = "date_read" THEN "null" ELSE as[i][f]]] :
     as \in {r \in BoundedSeq({a \in RankPool : a.id \in {3, 4, 5}}, 3) :
               \A i, j \in 1..Len(r) : i # j => r[i].id # r[j].id}}

InitRead ==
  /\ withCache = TRUE
  /\ SessionInit
  /\ pureIn \in {[kind |-> "read", articles |-> st, profile |-> ReadProfile] :
                   st \in ReadStores}
  /\ pureOut = Idle

\* the mount effect's fetchUserProfileAndRecommendations: the list is rendered
\* once loading is false
MountRecommendations ==
  /\ pureIn.kind = "read"
  /\ pureOut = Idle
  /\ pureOut' = [kind |-> "reading", store |-> pureIn.articles,
                 recommendations |-> rankedArticles(pureIn.articles, pureIn.profile),
                 error |-> NoError, reads |-> {}, refreshes |-> {},
                 started |-> 0, clicks |-> 0]
  /\ UNCHANGED <<withCache, user, view, formVars, streakVars, subs, nsub, storeVars,
                 listVars, hist, pureIn>>

\* the list is rendered only when no error is set
RecommendationsShown == pureOut.kind = "reading" /\ pureOut.error = NoError

\* handleReadArticle up to its await: the update of is_read is sent
handleReadArticle(k) ==
  /\ RecommendationsShown
  /\ k <= Len(pureOut.recommendations)
  /\ pureOut.clicks < MaxReads
  /\ pureOut' = [pureOut EXCEPT
                   !.reads = @ \cup {[n |-> pureOut.started + 1,
                                      id |-> pureOut.recommendations[k].id]},
                   !.started = @ + 1,
                   !.clicks = @ + 1]
  /\ UNCHANGED <<withCache, user, view, formVars, streakVars, subs, nsub, storeVars,
                 listVars, hist, pureIn>>

\* `.update({ is_read: true }).eq('id', article.id)`
MarkRead(rows, id) ==
  [k \in 1..Len(rows) |->
     IF rows[k].id = id THEN [rows[k] EXCEPT !.is_read = TRUE] ELSE rows[k]]

\* the store answered the update: a refresh is started, or the error is logged
ReadSettle(r) ==
  /\ pureOut.kind = "reading"
  /\ r \in pureOut.reads
  /\ \/ pureOut' = [pureOut EXCEPT
                      !.reads = @ \ {r},
                      !.store = MarkRead(@, r.id),
                      !.refreshes = @ \cup {[n |-> pureOut.started + 1, pc |-> "query",
                                             result |-> <<>>]},
                      !.started = @ + 1]
     \/ pureOut' = [pureOut EXCEPT !.reads = @ \ {r}]
  /\ UNCHANGED <<withCache, user, view, formVars, streakVars, subs, nsub, storeVars,
                 listVars, hist, pureIn>>

\* the store evaluates the articles query of refresh f; its answer is under way
RefreshQuery(f) ==
  /\ pureOut.kind = "reading"
  /\ f \in pureOut.refreshes
  /\ f.pc = "query"
  /\ pureOut' = [pureOut EXCEPT
                   !.refreshes = (@ \ {f}) \cup
                     {[f EXCEPT !.pc = "answer",
                                !.result = rankedArticles(pureOut.store, pureIn.profile)]}]
  /\ UNCHANGED <<withCache, user, view, formVars, streakVars, subs, nsub, storeVars,
                 listVars, hist, pureIn>>

\* the answer of refresh f arrives: setRecommendations
RefreshDeliver(f) ==
  /\ pureOut.kind = "reading"
  /\ f \in pureOut.refreshes
  /\ f.pc = "answer"
  /\ pureOut' = [pureOut EXCEPT !.refreshes = @ \ {f}, !.recommendations = f.result]
  /\ UNCHANGED <<withCache, user, view, formVars, streakVars, subs, nsub, storeVars,
                 listVars, hist, pureIn>>

\* the articles query of refresh f fails: the catch block sets the error
RefreshFail(f) ==
  /\ pureOut.kind = "reading"
  /\ f \in pureOut.refreshes
  /\ f.pc = "query"
  /\ pureOut' = [pureOut EXCEPT !.refreshes = @ \ {f},
                                !.error = "Failed to fetch articles"]
  /\ UNCHANGED <<withCache, user, view, formVars, streakVars, subs, nsub, storeVars,
                 listVars, hist, pureIn>>

NextRead ==
  \/ MountRecommendations
  \/ \E k \in 1..TopN : handleReadArticle(k)
  \/ \E r \in (IF pureOut.kind = "reading" THEN pureOut.reads ELSE {}) : ReadSettle(r)
  \/ \E f \in (IF pureOut.kind = "reading" THEN pureOut.refreshes ELSE {}) :
       RefreshQuery(f)
  \/ \E f \in (IF pureOut.kind = "reading" THEN pureOut.refreshes ELSE {}) :
       RefreshDeliver(f)
  \/ \E f \in (IF pureOut.kind = "reading" THEN pureOut.refreshes ELSE {}) :
       RefreshFail(f)

SpecRead == InitRead /\ [][NextRead]_vars

\* nothing is in flight and the list is rendered
ReadQuiet ==
  /\ RecommendationsShown
  /\ pureOut.reads = {}
  /\ pureOut.refreshes = {}

\* C26: after handleReadArticle has marked a recommended article read and all
\* in-flight recommendation refreshes have completed, that article is no
\* longer in the recommendations list, for every order in which overlapping
\* refreshes complete.
C26_ReadArticleLeavesList ==
  ReadQuiet =>
    \A k \in 1..Len(pureOut.recommendations) :
      \A i \in 1..Len(pureOut.store) :
        pureOut.store[i].id = pureOut.recommendations[k].id => ~pureOut.store[i].is_read

\* C28: for every Article in the store, date_read is non-null exactly when
\* is_read is true, after any sequence of toggleReadStatus and
\* handleReadArticle operations starting from unread articles with null
\* date_read.
C28_DateReadIffRead ==
  pureOut.kind = "reading" =>
    \A i \in 1..Len(pureOut.store) :
      (pureOut.store[i].date_read # "null") <=> pureOut.store[i].is_read

(* ------------------------------ UserProfile ------------------------------- *)
\* two of the PREDEFINED_INTERESTS
ProfileInterests == {<<"Robotics">>, <<"AI Ethics">>}

EXPERTISE_LEVELS == {"beginner", "intermediate", "advanced", "expert"}

\* useState's initial profile; expertise_areas is the list of its entries in
\* insertion order
EmptyProfile == [interests |-> <<>>, expertise_areas |-> <<>>]

\* the user's row of user_profiles at the mount, if there is one
ProfileRows ==
  {EmptyProfile,
   [interests |-> <<<<"Robotics">>>>,
    expertise_areas |-> <<[area |-> <<"Robotics">>, level |-> "expert"]>>]}

InitProfile ==
  /\ withCache = TRUE
  /\ SessionInit
  /\ pureIn \in {[kind |-> "profile", row |-> r] : r \in ProfileRows}
  /\ pureOut = Idle

\* the mount effect: setProfile(data)
fetchProfile ==
  /\ pureIn.kind = "profile"
  /\ pureOut = Idle
  /\ pureOut' = [kind |-> "profile", profile |-> pureIn.row, saved |-> pureIn.row,
                 error |-> NoError]
  /\ UNCHANGED <<withCache, user, view, formVars, streakVars, subs, nsub, storeVars,
                 listVars, hist, pureIn>>

\* the button of an interest: the interest is removed from or appended to
\* interests, the rest of the profile is kept (`...prev`)
toggleInterest(interest) ==
  /\ pureOut.kind = "profile"
  /\ LET prev == pureOut.profile
         Other(i) == i # interest
     IN  pureOut' = [pureOut EXCEPT !.profile.interests =
                       IF \E k \in 1..Len(prev.interests) : prev.interests[k] = interest
                         THEN SelectSeq(prev.interests, Other)
                         ELSE Append(prev.interests, interest)]
  /\ UNCHANGED <<withCache, user, view, formVars, streakVars, subs, nsub, storeVars,
                 listVars, hist, pureIn>>

\* `{ ...prev.expertise_areas, [area]: level }`
WithExpertise(areas, area, level) ==
  IF \E k \in 1..Len(areas) : areas[k].area = area
    THEN [k \in 1..Len(areas) |->
            IF areas[k].area = area THEN [area |-> area, level |-> level] ELSE areas[k]]
    ELSE Append(areas, [area |-> area, level |-> level])

\* the level select of a selected interest (one is rendered per entry of
\* profile.interests)
updateExpertise(k, level) ==
  /\ pureOut.kind = "profile"
  /\ k <= Len(pureOut.profile.interests)
  /\ pureOut' = [pureOut EXCEPT !.profile.expertise_areas =
                   WithExpertise(@, pureOut.profile.interests[k], level)]
  /\ UNCHANGED <<withCache, user, view, formVars, streakVars, subs, nsub, storeVars,
                 listVars, hist, pureIn>>

\* Save Profile: the upsert of the profile, or the error of the catch block
handleSave ==
  /\ pureOut.kind = "profile"
  /\ \/ pureOut' = [pureOut EXCEPT !.saved = pureOut.profile]
     \/ pureOut' = [pureOut EXCEPT !.error = "Failed to save profile"]
  /\ UNCHANGED <<withCache, user, view, formVars, streakVars, subs, nsub, storeVars,
                 listVars, hist, pureIn>>

NextProfile ==
  \/ fetchProfile
  \/ \E i \in ProfileInterests : toggleInterest(i)
  \/ \E k \in 1..Cardinality(ProfileInterests), l \in EXPERTISE_LEVELS :
       updateExpertise(k, l)
  \/ handleSave

SpecProfile == InitProfile /\ [][NextProfile]_vars

\* the levels of a profile's expertise map, as getExpertiseScore reads them
ExpertiseValues(p) == [k \in 1..Len(p.expertise_areas) |-> p.expertise_areas[k].level]

\* the levels of the entries whose key is a selected interest
SelectedValues(p) ==
  LET Selected(e) == e.area \in Range(p.interests)
  IN  ExpertiseValues([p EXCEPT !.expertise_areas = SelectSeq(@, Selected)])

KeysAreSelected(p) ==
  /\ \A k \in 1..Len(p.expertise_areas) : p.expertise_areas[k].area \in Range(p.interests)
  /\ getExpertiseScore(ExpertiseValues(p)) = getExpertiseScore(SelectedValues(p))

\* C30: after any sequence of toggleInterest and updateExpertise calls, every
\* key of profile.expertise_areas is a currently selected interest
\* (deselecting an interest removes its expertise level), so the mean
\* expertise used by the ranker counts only selected interests.
C30_ExpertiseOnlyForInterests ==
  pureOut.kind = "profile" =>
    /\ KeysAreSelected(pureOut.profile)
    /\ KeysAreSelected(pureOut.saved)

\* the notes have the same sort key under the sort option
EqualSortKey(sortBy, a, b) ==
  IF sortBy = "article" THEN TitleOf(a) = TitleOf(b) ELSE a.created_at = b.created_at

\* where a note of the output stood in the input
InputPos(n) == CHOOSE i \in 1..Len(pureIn.notes) : pureIn.notes[i] = n

\* C11: the sort of filterAndSortNotes is stable: for every sort option two
\* notes with equal sort keys (equal created_at, or equal article title) keep
\* their relative input order in the output.
C11_SortStable ==
  Viewed =>
    \A i, j \in 1..Len(pureOut.notes) :
      (i < j /\ EqualSortKey(pureIn.sortBy, pureOut.notes[i], pureOut.notes[j]))
        => InputPos(pureOut.notes[i]) < InputPos(pureOut.notes[j])

C11_Witness ==
  /\ Viewed
  /\ pureIn.sortBy = "article"
  /\ Len(pureOut.notes) = 3
  /\ pureOut.notes # pureIn.notes
  /\ TitleOf(pureOut.notes[1]) = <<>>
  /\ TitleOf(pureOut.notes[2]) = <<>>
  /\ pureOut.notes[1].id > pureOut.notes[2].id
  /\ pureOut.notes[1].article_title # pureOut.notes[2].article_title

\* C12: filterAndSortNotes never changes the note collection it is given
\* (neither its membership nor its order), for every filter, query and sort
\* option, and a second call with the same arguments gives the same output.
C12_InputUntouched ==
  Viewed =>
    /\ pureOut.input = pureIn.notes
    /\ pureOut.again = pureOut.notes

C12_Witness ==
  /\ Viewed
  /\ pureIn.filterBy = "all"
  /\ pureIn.searchQuery = <<>>
  /\ pureIn.sortBy = "oldest"
  /\ Len(pureIn.notes) = 3
  /\ pureOut.notes # pureIn.notes
  /\ pureOut.input = pureIn.notes

====
